---- MODULE Spec2Model ----
(***************************************************************************)
(* The client-side session state machine of streamlit_app.py: the four     *)
(* st.session_state fields, the five gateway helpers and the button/form   *)
(* handlers of the script, run against a backend that follows the HTTP     *)
(* contract of the specification (section 6).                              *)
(*                                                                         *)
(* One script run that handles a widget event is one action.  The helpers  *)
(* are synchronous (requests.get / requests.post), so a handler and the    *)
(* requests it makes are a single step.                                    *)
(*                                                                         *)
(* Every request can end without an answer, with a 4xx status, or with a   *)
(* 2xx status.  The JSON body of a 2xx answer is the object the contract   *)
(* gives for that endpoint (a non-empty access_token, username or          *)
(* key_value) or a falsy JSON value; objects of another shape are outside  *)
(* the contract and are not modelled.                                      *)
(***************************************************************************)
EXTENDS Integers, Sequences, FiniteSets, TLC

VARIABLES
    session_state,  \* st.session_state: logged_in, username, access_token, generated_api_key
    backend,        \* the remote service: accounts, tokens issued, tokens still accepted, keys issued
    last,           \* the intent handled by the latest script run: its inputs, requests, messages
    run             \* the script run in progress, when its requests are followed one by one

vars == <<session_state, backend, last, run>>

(***************************************************************************)
(* Bounds and input sets                                                   *)
(***************************************************************************)
MaxTokens == 2      \* bearer tokens the backend mints in one behaviour
MaxKeys == 2        \* API keys the backend mints in one behaviour

Users == {"alice", "bob"}
Passwords == {"pw1"}                    \* the passwords users register with
UsernameInputs == Users \cup {""}       \* st.text_input returns "" when left empty
PasswordInputs == Passwords \cup {"", "pw2"}

(***************************************************************************)
(* Python values                                                           *)
(***************************************************************************)
None == "None"

\* A value returned by response.json(), or Python's None.
NonePayload == [kind |-> "none", value |-> None]
EmptyJson == [kind |-> "empty", value |-> None]     \* {} , [] , 0 , "" , false , null
Obj(v) == [kind |-> "obj", value |-> v]             \* a non-empty JSON object

\* bool(x) of a payload: None and empty JSON values are falsy.
Truthy(x) == x.kind = "obj"

\* bool(s) of an optional string: None and "" are falsy.
StrTruthy(s) == s # None /\ s # ""

(***************************************************************************)
(* The backend, from the HTTP contract                                     *)
(***************************************************************************)
TokenOf(n) == "T" \o ToString(n)
KeyOf(n) == "K" \o ToString(n)

BackendInit ==
    [accounts |-> [u \in Users |-> None],   \* registered password of each user
     tokens   |-> <<>>,                     \* tokens[n]: the user token n was issued to
     live     |-> {},                       \* serials of the tokens still accepted
     keys     |-> <<>>]                     \* keys[n]: the user key n was issued to, and
                                            \* the token that asked for it

\* Key n is the current key of its user: no later key was issued to that user.
KeyCurrent(be, n) ==
    /\ n \in 1..Len(be.keys)
    /\ \A m \in (n + 1)..Len(be.keys) : be.keys[m].user # be.keys[n].user

\* No answer: the backend is not running or the connection fails.
Down(be) == [status |-> "down", body |-> NonePayload, be |-> be]

\* The backend refuses the request with a 4xx status.
Denied(be) == [status |-> "4xx", body |-> NonePayload, be |-> be]

\* A 2xx answer whose JSON body is the contract's object, or a falsy JSON value.
Answers(be, v) == {[status |-> "2xx", body |-> b, be |-> be] : b \in {Obj(v), EmptyJson}}

PostRegister(be, u, p) ==
    {Down(be)} \cup
    (IF u \in Users /\ p \in Passwords /\ be.accounts[u] = None
     THEN Answers([be EXCEPT !.accounts[u] = p], u)
     ELSE {Denied(be)})

PostToken(be, u, p) ==
    {Down(be)} \cup
    (IF u \in Users /\ p \in Passwords /\ be.accounts[u] = p
     THEN IF Len(be.tokens) < MaxTokens
          THEN LET n == Len(be.tokens) + 1
               IN  Answers([be EXCEPT !.tokens = Append(@, u), !.live = @ \cup {n}],
                           TokenOf(n))
          ELSE {}
     ELSE {Denied(be)})

\* The live tokens an Authorization header value names.
Bearers(be, authorization) == {n \in be.live : authorization = "Bearer " \o TokenOf(n)}

GetUsersMe(be, authorization) ==
    {Down(be)} \cup
    (IF Bearers(be, authorization) # {}
     THEN UNION {Answers(be, be.tokens[n]) : n \in Bearers(be, authorization)}
     ELSE {Denied(be)})

PostGenerateApiKey(be, authorization) ==
    {Down(be)} \cup
    (IF Bearers(be, authorization) # {}
     THEN IF Len(be.keys) < MaxKeys
          THEN UNION {Answers([be EXCEPT !.keys = Append(@, [user |-> be.tokens[n],
                                                             token |-> TokenOf(n)])],
                              KeyOf(Len(be.keys) + 1))
                      : n \in Bearers(be, authorization)}
          ELSE {}
     ELSE {Denied(be)})

\* The current keys an X-API-Key header value names.
ApiKeys(be, xapikey) == {n \in 1..Len(be.keys) : xapikey = KeyOf(n) /\ KeyCurrent(be, n)}

GetApiKeyProtected(be, xapikey) ==
    {Down(be)} \cup
    (IF ApiKeys(be, xapikey) # {} THEN Answers(be, "protected data") ELSE {Denied(be)})

(***************************************************************************)
(* Gateway helpers (lines 11-74)                                           *)
(***************************************************************************)
ErrConnect == "Error connecting to backend or invalid response"

\* The helper without response.raise_for_status(): the JSON body of an error
\* answer ({"detail": ...}) comes back as the result.
Returned_NoRaiseForStatus(r, request) ==
    LET result == IF r.status = "2xx" THEN r.body
                  ELSE IF r.status = "4xx" THEN Obj(None) ELSE NonePayload
    IN  [result |-> result,
         error  |-> IF r.status = "down" THEN ErrConnect ELSE None,
         be     |-> r.be,
         req    |-> [request EXCEPT !.status = r.status, !.result = result,
                                    !.ok = (r.status = "2xx" /\ Truthy(r.body))]]

\* try: raise_for_status(); return response.json(), None
\* except RequestException: return None, "Error connecting ..."
\* A connection failure and a 4xx status both raise a RequestException.
\* req is the request as sent, with what came back: the status, the helper's
\* result, and ok when that result is a 2xx answer's non-empty payload.
Returned(r, request) ==
    [result |-> IF r.status = "2xx" THEN r.body ELSE NonePayload,
     error  |-> IF r.status = "2xx" THEN None ELSE ErrConnect,
     be     |-> r.be,
     req    |-> [request EXCEPT !.status = r.status,
                                !.result = IF r.status = "2xx" THEN r.body ELSE NonePayload,
                                !.ok = (r.status = "2xx" /\ Truthy(r.body))]]

Request(method, path, hname, hvalue, u, p) ==
    [method |-> method, path |-> path, hname |-> hname, hvalue |-> hvalue,
     username |-> u, password |-> p, status |-> None, result |-> NonePayload, ok |-> FALSE]

register_user_api(be, username, password) ==
    {Returned(r, Request("POST", "/register", None, None, username, password))
     : r \in PostRegister(be, username, password)}

login_user_api(be, username, password) ==
    {Returned(r, Request("POST", "/token", None, None, username, password))
     : r \in PostToken(be, username, password)}

get_current_user_api(be, token) ==
    {Returned(r, Request("GET", "/users/me", "Authorization", "Bearer " \o token, None, None))
     : r \in GetUsersMe(be, "Bearer " \o token)}

\* The helper sending the token in the header of the API key (line 54 with
\* the header of line 67).
generate_api_key_api_InKeyHeader(be, token) ==
    {Returned(r, Request("POST", "/users/me/generate-api-key", "X-API-Key", token, None, None))
     : r \in PostGenerateApiKey(be, None)}

generate_api_key_api(be, token) ==
    {Returned(r, Request("POST", "/users/me/generate-api-key", "Authorization",
                         "Bearer " \o token, None, None))
     : r \in PostGenerateApiKey(be, "Bearer " \o token)}

get_protected_data_api(be, api_key) ==
    {Returned(r, Request("GET", "/api-key-protected", "X-API-Key", api_key, None, None))
     : r \in GetApiKeyProtected(be, api_key)}

(***************************************************************************)
(* Session state (lines 82-90) and the assignments of each handler         *)
(***************************************************************************)
SessionInit ==
    [logged_in |-> FALSE, username |-> None, access_token |-> None,
     generated_api_key |-> None]

\* line 104 left out
RefreshFailed_StaysLoggedIn(s) == [s EXCEPT !.username = None, !.access_token = None]

\* line 105 left out
RefreshFailed_KeepsUsername(s) == [s EXCEPT !.logged_in = FALSE, !.access_token = None]

\* line 106 left out
RefreshFailed_KeepsToken(s) == [s EXCEPT !.logged_in = FALSE, !.username = None]

\* lines 104-106: a failed profile fetch
RefreshFailed(s) ==
    [s EXCEPT !.logged_in = FALSE, !.username = None, !.access_token = None]

\* line 161 left out
KeyGenerated_NotStored(s, key_value) == s

\* line 161 storing the key only when the session holds none
KeyGenerated_KeepsExisting(s, key_value) ==
    IF StrTruthy(s.generated_api_key) THEN s ELSE [s EXCEPT !.generated_api_key = key_value]

\* line 161
KeyGenerated(s, key_value) == [s EXCEPT !.generated_api_key = key_value]

\* line 185 left out
LoggedOut_KeepsToken(s) ==
    [s EXCEPT !.logged_in = FALSE, !.username = None, !.generated_api_key = None]

\* line 186 left out
LoggedOut_KeepsKey(s) ==
    [s EXCEPT !.logged_in = FALSE, !.username = None, !.access_token = None]

\* lines 183-186
LoggedOut(s) ==
    [s EXCEPT !.logged_in = FALSE, !.username = None, !.access_token = None,
              !.generated_api_key = None]

\* line 220
\* Line 220 left out: the returned token is not stored before line 221 reads it.
TokenStored_Dropped(s, access_token) == s

TokenStored(s, access_token) == [s EXCEPT !.access_token = access_token]

\* line 223 left out
LoginVerified_NoFlag(s, name) == [s EXCEPT !.username = name]

\* lines 223-224
LoginVerified(s, name) == [s EXCEPT !.logged_in = TRUE, !.username = name]

\* line 229 left out
LoginUnverified_KeepsToken(s) == s

\* line 229
LoginUnverified(s) == [s EXCEPT !.access_token = None]

\* lines 177-179 clearing the key the backend refused, as lines 104-106 do
\* for the token
AccessFailed_ClearsKey(s) == [s EXCEPT !.generated_api_key = None]

\* lines 177-179: a failed protected-resource request assigns nothing
AccessFailed(s) == s

\* line 209 logging the new user in
Registered_LogsIn(s, name) == [s EXCEPT !.logged_in = TRUE, !.username = name]

\* line 209: a successful registration assigns nothing
Registered(s, name) == s

\* lines 203, 214 testing the username alone
FieldsMissing_UsernameOnly(input_username, input_password) == ~StrTruthy(input_username)

\* lines 203, 214: not input_username or not input_password
FieldsMissing(input_username, input_password) ==
    ~StrTruthy(input_username) \/ ~StrTruthy(input_password)

\* the result test left out: the success branch is taken on every return
Succeeded_Always(ret) == TRUE

\* lines 100, 160, 174, 208, 219, 222: if <result>:
Succeeded(ret) == Truthy(ret.result)

(***************************************************************************)
(* What one script run did                                                 *)
(***************************************************************************)
Msg(kind, text) == <<kind, text>>

AllOk(reqs) == reqs # <<>> /\ \A i \in 1..Len(reqs) : reqs[i].ok

\* The run that started in session state pre has ended.
RanFrom(pre, intent, u, p, reqs, msgs, rerun) ==
    last' = [intent |-> intent, username |-> u, password |-> p, pre |-> pre,
             reqs |-> reqs, msgs |-> msgs, rerun |-> rerun]

Ran(intent, u, p, reqs, msgs, rerun) ==
    RanFrom(session_state, intent, u, p, reqs, msgs, rerun)

\* What a helper returns before it is called.
NoReturn ==
    [result |-> NonePayload, error |-> None, be |-> BackendInit,
     req |-> Request(None, None, None, None, None, None)]

\* No script run is in progress.
Idle ==
    [pc |-> "idle", intent |-> None, username |-> None, password |-> None,
     pre |-> SessionInit, out |-> <<>>, ret |-> NoReturn, done |-> <<>>]

Init ==
    /\ session_state = SessionInit
    /\ backend = BackendInit
    /\ last = [intent |-> "start", username |-> None, password |-> None, pre |-> SessionInit,
               reqs |-> <<>>, msgs |-> <<>>, rerun |-> FALSE]
    /\ run = Idle

(***************************************************************************)
(* Handlers of the logged-in page (lines 94-188)                           *)
(***************************************************************************)
\* lines 100-107: after get_current_user_api has returned
RefreshProfileThen(ret) ==
    IF Succeeded(ret)
    THEN /\ session_state' = session_state
         /\ Ran("refreshProfile", None, None, <<ret.req>>,
                <<Msg("write", "Username")>>, FALSE)
    ELSE /\ session_state' = RefreshFailed(session_state)
         /\ Ran("refreshProfile", None, None, <<ret.req>>,
                <<Msg("error", "Failed to fetch profile")>>, TRUE)

\* lines 98-107
RefreshProfile ==
    /\ session_state.logged_in
    /\ \E ret \in get_current_user_api(backend, session_state.access_token) :
        /\ backend' = ret.be
        /\ RefreshProfileThen(ret)
    /\ UNCHANGED run

\* lines 160-165: after generate_api_key_api has returned
GenerateKeyThen(ret) ==
    IF Succeeded(ret)
    THEN /\ session_state' = KeyGenerated(session_state, ret.result.value)
         /\ Ran("generateKey", None, None, <<ret.req>>,
                <<Msg("info", "Generating a new API Key"),
                  Msg("success", "API Key generated successfully")>>, TRUE)
    ELSE /\ session_state' = session_state
         /\ Ran("generateKey", None, None, <<ret.req>>,
                <<Msg("info", "Generating a new API Key"),
                  Msg("error", "Failed to generate API Key")>>, FALSE)

\* lines 157-165
GenerateKey ==
    /\ session_state.logged_in
    /\ \E ret \in generate_api_key_api(backend, session_state.access_token) :
        /\ backend' = ret.be
        /\ GenerateKeyThen(ret)
    /\ UNCHANGED run

\* lines 174-179: after get_protected_data_api has returned
TestProtectedAccessThen(ret) ==
    IF Succeeded(ret)
    THEN /\ session_state' = session_state
         /\ Ran("testProtectedAccess", None, None, <<ret.req>>,
                <<Msg("info", "Attempting to access protected data"),
                  Msg("success", "Successfully accessed protected data"),
                  Msg("json", ret.result.value)>>, FALSE)
    ELSE /\ session_state' = AccessFailed(session_state)
         /\ Ran("testProtectedAccess", None, None, <<ret.req>>,
                <<Msg("info", "Attempting to access protected data"),
                  Msg("error", "Failed to access protected data"),
                  Msg("warning", "invalid/expired key, or the backend is not running")>>,
                FALSE)

\* lines 167-179
TestProtectedAccess ==
    /\ session_state.logged_in
    /\ StrTruthy(session_state.generated_api_key)
    /\ \E ret \in get_protected_data_api(backend, session_state.generated_api_key) :
        /\ backend' = ret.be
        /\ TestProtectedAccessThen(ret)
    /\ UNCHANGED run

\* lines 182-188
Logout ==
    /\ session_state.logged_in
    /\ session_state' = LoggedOut(session_state)
    /\ backend' = backend
    /\ Ran("logout", None, None, <<>>, <<Msg("info", "You have been logged out")>>, TRUE)
    /\ UNCHANGED run

(***************************************************************************)
(* Handlers of the login/register form (lines 190-231)                     *)
(***************************************************************************)
\* lines 208-211: after register_user_api has returned
SubmitRegisterThen(input_username, input_password, ret) ==
    IF Succeeded(ret)
    THEN /\ session_state' = Registered(session_state, ret.result.value)
         /\ Ran("submitRegister", input_username, input_password, <<ret.req>>,
                <<Msg("info", "Attempting to register"),
                  Msg("success", "registered successfully")>>, FALSE)
    ELSE /\ session_state' = session_state
         /\ Ran("submitRegister", input_username, input_password, <<ret.req>>,
                <<Msg("info", "Attempting to register"),
                  Msg("error", "Registration failed")>>, FALSE)

\* lines 202-211: choice == "Register"
SubmitRegister(input_username, input_password) ==
    /\ ~session_state.logged_in
    /\ IF FieldsMissing(input_username, input_password)
       THEN /\ session_state' = session_state
            /\ backend' = backend
            /\ Ran("submitRegister", input_username, input_password, <<>>,
                   <<Msg("warning", "Please enter both username and password")>>, FALSE)
       ELSE \E ret \in register_user_api(backend, input_username, input_password) :
            /\ backend' = ret.be
            /\ SubmitRegisterThen(input_username, input_password, ret)
    /\ UNCHANGED run

\* lines 222-229: after get_current_user_api has returned; pre is the session
\* at the start of the run, stored the session with the token of line 220
SubmitLoginVerify(pre, stored, input_username, input_password, ret, me) ==
    IF Succeeded(me)
    THEN /\ session_state' = LoginVerified(stored, me.result.value)
         /\ RanFrom(pre, "submitLogin", input_username, input_password,
                    <<ret.req, me.req>>,
                    <<Msg("info", "Attempting to log in"),
                      Msg("success", "Logged in as")>>, TRUE)
    ELSE /\ session_state' = LoginUnverified(stored)
         /\ RanFrom(pre, "submitLogin", input_username, input_password,
                    <<ret.req, me.req>>,
                    <<Msg("info", "Attempting to log in"),
                      Msg("error", "Login successful, but failed to retrieve user info")>>,
                    FALSE)

\* lines 230-231: login_user_api has returned no payload
SubmitLoginFailed(input_username, input_password, ret) ==
    /\ session_state' = session_state
    /\ Ran("submitLogin", input_username, input_password, <<ret.req>>,
           <<Msg("info", "Attempting to log in"),
             Msg("error", "Login failed")>>, FALSE)

\* lines 213-231: choice == "Login"
SubmitLogin(input_username, input_password) ==
    /\ ~session_state.logged_in
    /\ IF FieldsMissing(input_username, input_password)
       THEN /\ session_state' = session_state
            /\ backend' = backend
            /\ Ran("submitLogin", input_username, input_password, <<>>,
                   <<Msg("warning", "Please enter both username and password")>>, FALSE)
       ELSE \E ret \in login_user_api(backend, input_username, input_password) :
            IF Succeeded(ret)
            THEN LET stored == TokenStored(session_state, ret.result.value)
                 IN  \E me \in get_current_user_api(ret.be, stored.access_token) :
                     /\ backend' = me.be
                     /\ SubmitLoginVerify(session_state, stored, input_username,
                                          input_password, ret, me)
            ELSE /\ backend' = ret.be
                 /\ SubmitLoginFailed(input_username, input_password, ret)
    /\ UNCHANGED run

(***************************************************************************)
(* The backend lets a bearer token expire                                  *)
(***************************************************************************)
ExpireToken ==
    /\ \E n \in backend.live : backend' = [backend EXCEPT !.live = @ \ {n}]
    /\ UNCHANGED <<session_state, last, run>>

Next ==
    \/ RefreshProfile
    \/ GenerateKey
    \/ TestProtectedAccess
    \/ Logout
    \/ \E u \in UsernameInputs, p \in PasswordInputs : SubmitRegister(u, p)
    \/ \E u \in UsernameInputs, p \in PasswordInputs : SubmitLogin(u, p)
    \/ ExpireToken

Spec == Init /\ [][Next]_vars

(***************************************************************************)
(* Properties                                                              *)
(***************************************************************************)
Anonymous(s) == ~s.logged_in /\ s.username = None /\ s.access_token = None

Sent(path) == \E i \in 1..Len(last.reqs) : last.reqs[i].path = path

Shown(kind, text) == \E i \in 1..Len(last.msgs) : last.msgs[i] = Msg(kind, text)

\* The backend no longer accepts this bearer token.
Rejected(token) == Bearers(backend, "Bearer " \o token) = {}

\* C1: whenever the session is logged in, the stored access token is present
\* and non-empty.
C1_AuthenticatedHasToken ==
    session_state.logged_in => StrTruthy(session_state.access_token)

\* A logged-in session whose profile refresh has just succeeded.
C1_Witness ==
    /\ last.intent = "refreshProfile"
    /\ session_state.logged_in
    /\ StrTruthy(session_state.access_token)

\* C2: the username is stored exactly when the session is logged in.
C2_UsernameIffAuthenticated ==
    (session_state.username # None) <=> session_state.logged_in

\* A failed profile refresh has logged a named user out.
C2_Witness ==
    /\ last.intent = "refreshProfile"
    /\ last.pre.username \in Users
    /\ ~session_state.logged_in
    /\ session_state.username = None

\* C3: a login submit ends logged in only if the /token call and the
\* /users/me call after it both succeeded; when /token succeeded and
\* /users/me did not, it ends anonymous with no token and no username.
C3_LoginNeedsBothCalls ==
    last.intent = "submitLogin" =>
        /\ session_state.logged_in =>
              /\ Len(last.reqs) = 2
              /\ last.reqs[1].path = "/token" /\ last.reqs[1].ok
              /\ last.reqs[2].path = "/users/me" /\ last.reqs[2].ok
        /\ (Len(last.reqs) = 2 /\ last.reqs[1].ok /\ ~last.reqs[2].ok) =>
              Anonymous(session_state)

\* /token answered with a token and the verification call failed.
C3_Witness ==
    /\ last.intent = "submitLogin"
    /\ Len(last.reqs) = 2
    /\ last.reqs[1].ok
    /\ last.reqs[1].result.value = TokenOf(Len(backend.tokens))
    /\ ~last.reqs[2].ok

\* C4: when the /token call fails, the login submit leaves the session as it
\* was (anonymous, no token) and sends no /users/me request.
C4_LoginFailureLeavesSession ==
    (last.intent = "submitLogin" /\ last.reqs # <<>> /\ last.reqs[1].status # "2xx") =>
        /\ session_state = last.pre
        /\ Anonymous(session_state)
        /\ Len(last.reqs) = 1
        /\ ~Sent("/users/me")

\* A registered user has submitted a wrong password.
C4_Witness ==
    /\ last.intent = "submitLogin"
    /\ last.username \in Users
    /\ backend.accounts[last.username] = "pw1"
    /\ last.password = "pw2"
    /\ last.reqs[1].status = "4xx"

\* C5: a register or login submit with an empty username or password sends
\* no request, shows the validation warning and leaves the session as it was.
C5_EmptyFieldsNoRequest ==
    (/\ last.intent \in {"submitRegister", "submitLogin"}
     /\ (last.username = "" \/ last.password = "")) =>
        /\ last.reqs = <<>>
        /\ Shown("warning", "Please enter both username and password")
        /\ session_state = last.pre

\* A login submit with a username and an empty password.
C5_Witness ==
    /\ last.intent = "submitLogin"
    /\ last.username \in Users
    /\ last.password = ""

\* C6: logout ends with the four session fields at their initial values and
\* sends no request.
C6_LogoutClearsAll ==
    last.intent = "logout" =>
        /\ session_state = SessionInit
        /\ last.reqs = <<>>

\* Logout from a session that held an API key.
C6_Witness ==
    /\ last.intent = "logout"
    /\ last.pre.logged_in
    /\ StrTruthy(last.pre.generated_api_key)

\* C7: a profile refresh whose /users/me call fails ends anonymous, with the
\* token and the username cleared, in that same run.
C7_RefreshFailureLogsOut ==
    (last.intent = "refreshProfile" /\ ~last.reqs[1].ok) => Anonymous(session_state)

\* The refresh was made with a token the backend had let expire.
C7_Witness ==
    /\ last.intent = "refreshProfile"
    /\ last.pre.logged_in
    /\ Rejected(last.pre.access_token)
    /\ last.reqs[1].status = "4xx"

\* The token is stored only by a login submit whose two calls succeeded.
TokenSetOnlyByLogin ==
    (session_state.access_token # None /\ session_state.access_token # last.pre.access_token) =>
        /\ last.intent = "submitLogin"
        /\ AllOk(last.reqs)
        /\ session_state.access_token = last.reqs[1].result.value

TokenClearedByLogout == last.intent = "logout" => session_state.access_token = None

\* The run's request with this path was sent with a bearer token and failed.
BearerFailed(path) ==
    \E i \in 1..Len(last.reqs) :
        /\ last.reqs[i].path = path
        /\ last.reqs[i].hname = "Authorization"
        /\ ~last.reqs[i].ok

\* The run's request with this path was sent with a bearer token that the
\* backend refused.
BearerDenied(path) ==
    \E i \in 1..Len(last.reqs) :
        /\ last.reqs[i].path = path
        /\ last.reqs[i].hname = "Authorization"
        /\ last.reqs[i].status = "4xx"

\* C8 as stated: the token is set only by a successful login, cleared by
\* logout, and cleared by every bearer-token request the backend refuses,
\* /users/me and /users/me/generate-api-key alike.
C8_Original ==
    /\ TokenSetOnlyByLogin
    /\ TokenClearedByLogout
    /\ (BearerDenied("/users/me") \/ BearerDenied("/users/me/generate-api-key")) =>
          session_state.access_token = None

\* C8, amended: the token is set only by a successful login, cleared by
\* logout and by every failed /users/me request; a failed generate-api-key
\* request leaves the stored token in place.
C8_TokenLifecycle ==
    /\ TokenSetOnlyByLogin
    /\ TokenClearedByLogout
    /\ BearerFailed("/users/me") => session_state.access_token = None
    /\ BearerFailed("/users/me/generate-api-key") =>
          /\ session_state.access_token = last.pre.access_token
          /\ StrTruthy(session_state.access_token)

\* The backend rejected an expired token on generate-api-key.
C8_Witness ==
    /\ last.intent = "generateKey"
    /\ last.reqs[1].status = "4xx"
    /\ Rejected(last.pre.access_token)
    /\ session_state.access_token = last.pre.access_token

\* C9: generateKey runs only in a logged-in session; when its call succeeds
\* the returned key replaces generated_api_key and nothing else changes; when
\* it fails the session is unchanged and the error is shown.
C9_GenerateKeyEffect ==
    last.intent = "generateKey" =>
        /\ last.pre.logged_in
        /\ last.reqs[1].ok =>
              /\ session_state = [last.pre EXCEPT !.generated_api_key = last.reqs[1].result.value]
              /\ session_state.logged_in
              /\ StrTruthy(session_state.generated_api_key)
        /\ ~last.reqs[1].ok =>
              /\ session_state = last.pre
              /\ Shown("error", "Failed to generate API Key")

\* A successful generateKey in a session that already held a key.
C9_Witness ==
    /\ last.intent = "generateKey"
    /\ last.reqs[1].ok
    /\ StrTruthy(last.pre.generated_api_key)
    /\ session_state.generated_api_key = KeyOf(Len(backend.keys))

\* The token whose request minted this key.
MintedUnder(be, key) ==
    {be.keys[n].token : n \in {m \in 1..Len(be.keys) : KeyOf(m) = key}}

\* generateKey has succeeded again in the login that generated the stored key.
GeneratedAgain ==
    /\ last.intent = "generateKey"
    /\ last.reqs[1].ok
    /\ StrTruthy(last.pre.generated_api_key)
    /\ MintedUnder(backend, last.pre.generated_api_key) = {session_state.access_token}

\* C10: after generateKey has succeeded twice in one login, the stored key
\* differs from the earlier one, every protected-resource request with the
\* earlier key fails (the backend refuses it), and a request with the new key
\* can succeed.
C10_SecondKeyReplacesFirst ==
    GeneratedAgain =>
        /\ session_state.generated_api_key # last.pre.generated_api_key
        /\ \A ret \in get_protected_data_api(backend, last.pre.generated_api_key) :
               ~Succeeded(ret)
        /\ \E ret \in get_protected_data_api(backend, last.pre.generated_api_key) :
               ret.req.status = "4xx"
        /\ \E ret \in get_protected_data_api(backend, session_state.generated_api_key) :
               Succeeded(ret)

\* The second key of one login is in the session, the first was there before.
C10_Witness ==
    /\ GeneratedAgain
    /\ last.pre.generated_api_key = KeyOf(1)
    /\ session_state.generated_api_key = KeyOf(2)

\* C11: testProtectedAccess runs only in a logged-in session that holds an
\* API key, and whether its request succeeds or fails the four session fields
\* stay as they were; a failure leaves the key stored.
C11_ProtectedAccessFrame ==
    last.intent = "testProtectedAccess" =>
        /\ last.pre.logged_in
        /\ last.pre.generated_api_key \notin {None, ""}
        /\ session_state = last.pre
        /\ Len(last.reqs) = 1
        /\ last.reqs[1].path = "/api-key-protected"

\* The backend refused the stored key, which is still stored.
C11_Witness ==
    /\ last.intent = "testProtectedAccess"
    /\ last.reqs[1].status = "4xx"
    /\ session_state.generated_api_key = last.pre.generated_api_key
    /\ session_state.generated_api_key = KeyOf(1)

\* The token the session held when request i of the latest run was sent:
\* the one stored before the run, or the one line 220 stored from the /token
\* answer of this run.
TokenAtSend(i) ==
    IF last.intent = "submitLogin" THEN last.reqs[1].result.value
    ELSE last.pre.access_token

\* C12: a request with an Authorization header carries "Bearer " and the
\* session's access token, a request with an X-API-Key header carries the
\* session's API key, and neither header ever carries the other credential.
C12_CredentialsNotInterchanged ==
    \A i \in 1..Len(last.reqs) :
        LET r == last.reqs[i] IN
        /\ r.path \in {"/users/me", "/users/me/generate-api-key"} =>
              /\ r.hname = "Authorization"
              /\ r.hvalue = "Bearer " \o TokenAtSend(i)
              /\ StrTruthy(TokenAtSend(i))
        /\ r.path = "/api-key-protected" =>
              /\ r.hname = "X-API-Key"
              /\ r.hvalue = last.pre.generated_api_key
              /\ StrTruthy(last.pre.generated_api_key)
        /\ r.path \in {"/register", "/token"} => r.hname = None
        /\ r.hname = "Authorization" =>
              r.hvalue \notin {"Bearer " \o KeyOf(n) : n \in 1..Len(backend.keys)}
        /\ r.hname = "X-API-Key" =>
              r.hvalue \notin {TokenOf(n) : n \in 1..Len(backend.tokens)}

\* A session holding both credentials has sent its key in X-API-Key.
C12_Witness ==
    /\ last.intent = "testProtectedAccess"
    /\ StrTruthy(session_state.access_token)
    /\ last.reqs[1].hname = "X-API-Key"
    /\ last.reqs[1].hvalue = session_state.generated_api_key

\* C13: submitRegister runs only in an anonymous session, and whether the
\* register call succeeds or fails the session stays anonymous with its four
\* fields as they were.
C13_RegisterFrame ==
    last.intent = "submitRegister" =>
        /\ ~last.pre.logged_in
        /\ session_state = last.pre
        /\ Anonymous(session_state)

\* The backend has just registered the submitted user.
C13_Witness ==
    /\ last.intent = "submitRegister"
    /\ last.reqs # <<>>
    /\ last.reqs[1].ok
    /\ last.reqs[1].result.value = last.username
    /\ backend.accounts[last.username] = last.password

\* No path is requested twice in one run.
NoRepeatedRequest ==
    \A i, j \in 1..Len(last.reqs) : i # j => last.reqs[i].path # last.reqs[j].path

EmptyField == last.username = "" \/ last.password = ""

\* C15 as stated: every submitRegister, refreshProfile, generateKey and
\* testProtectedAccess run sends exactly one request, a submitLogin run sends
\* one when /token fails and two when it succeeds, and logout sends none.
C15_Original ==
    /\ NoRepeatedRequest
    /\ last.intent \in {"submitRegister", "refreshProfile", "generateKey",
                        "testProtectedAccess"} => Len(last.reqs) = 1
    /\ last.intent = "submitLogin" =>
          Len(last.reqs) = (IF last.reqs # <<>> /\ last.reqs[1].ok THEN 2 ELSE 1)
    /\ last.intent = "logout" => Len(last.reqs) = 0

\* C15, amended: no run requests a path twice; refreshProfile, generateKey
\* and testProtectedAccess send exactly one request and logout none;
\* submitRegister and submitLogin send none when a field is empty; otherwise
\* submitRegister sends one, and submitLogin sends /token alone when it
\* fails and /token then /users/me when it succeeds.
C15_RequestCounts ==
    /\ NoRepeatedRequest
    /\ last.intent \in {"refreshProfile", "generateKey", "testProtectedAccess"} =>
          Len(last.reqs) = 1
    /\ last.intent = "logout" => Len(last.reqs) = 0
    /\ (last.intent \in {"submitRegister", "submitLogin"} /\ EmptyField) =>
          Len(last.reqs) = 0
    /\ (last.intent = "submitRegister" /\ ~EmptyField) =>
          /\ Len(last.reqs) = 1
          /\ last.reqs[1].path = "/register"
    /\ (last.intent = "submitLogin" /\ ~EmptyField) =>
          /\ Len(last.reqs) = (IF last.reqs[1].ok THEN 2 ELSE 1)
          /\ last.reqs[1].path = "/token"
          /\ Len(last.reqs) = 2 => last.reqs[2].path = "/users/me"

\* A login whose /token call succeeded has sent its two requests.
C15_Witness ==
    /\ last.intent = "submitLogin"
    /\ Len(last.reqs) = 2
    /\ last.reqs[1].ok
    /\ last.reqs[2].status = "2xx"

TookSuccessBranch ==
    \/ last.intent = "testProtectedAccess"
          /\ Shown("success", "Successfully accessed protected data")
    \/ last.intent = "refreshProfile" /\ Shown("write", "Username")

\* C18: a protected-resource or profile request is handled as a success
\* exactly when the backend answered 2xx with parseable JSON, whatever the
\* value of the payload, a falsy one included.
C18_Original ==
    last.intent \in {"testProtectedAccess", "refreshProfile"} =>
        (TookSuccessBranch <=> last.reqs[1].status = "2xx")

\* C19: whenever the session holds an API key it is logged in.
C19_Original ==
    StrTruthy(session_state.generated_api_key) => session_state.logged_in

\* C20: the API key of a logged-in session was generated with the session's
\* current access token, and so was every key sent in X-API-Key.
C20_Original ==
    /\ (session_state.logged_in /\ StrTruthy(session_state.generated_api_key)) =>
          MintedUnder(backend, session_state.generated_api_key) = {session_state.access_token}
    /\ last.intent = "testProtectedAccess" =>
          MintedUnder(backend, last.reqs[1].hvalue) = {last.pre.access_token}

\* ---------------------------------------------------------------------
\* The same handlers followed request by request: a helper call is sent,
\* answered by the backend (or never answered), and the script goes on
\* from the call's return.

\* The helper call the run in progress is blocked in: lines 218 and 221 of
\* submitLogin in this order, the single call of every other handler.
Pending(r, s, be) ==
    CASE r.intent = "refreshProfile" -> get_current_user_api(be, s.access_token)
      [] r.intent = "generateKey" -> generate_api_key_api(be, s.access_token)
      [] r.intent = "testProtectedAccess" -> get_protected_data_api(be, s.generated_api_key)
      [] r.intent = "submitRegister" -> register_user_api(be, r.username, r.password)
      [] r.intent = "submitLogin" /\ r.done = <<>> -> login_user_api(be, r.username, r.password)
      [] r.intent = "submitLogin" /\ r.done # <<>> -> get_current_user_api(be, s.access_token)

\* The request of a helper call as sent, before any response.
Unanswered(req) == [req EXCEPT !.status = None, !.result = NonePayload, !.ok = FALSE]

Outgoing(r, s, be) == CHOOSE req \in {Unanswered(ret.req) : ret \in Pending(r, s, be)} : TRUE

\* The widgets the page renders in the current session state
\* (lines 94, 98, 157, 167, 202-203, 213-214) whose handler calls a helper.
Admitted(intent, u, p) ==
    CASE intent \in {"refreshProfile", "generateKey"} -> session_state.logged_in
      [] intent = "testProtectedAccess" ->
            session_state.logged_in /\ StrTruthy(session_state.generated_api_key)
      [] intent \in {"submitRegister", "submitLogin"} ->
            ~session_state.logged_in /\ ~FieldsMissing(u, p)

\* The form inputs tried when requests are followed one by one: one account
\* name, its password, a wrong password, and the empty field.
WireUsers == {"alice"}
WirePasswords == {"pw1", "pw2"}

\* A handler that sends no request runs to its end at once
\* (lines 182-188, 203-204, 214-215).
Quick ==
    /\ run.pc = "idle"
    /\ \/ Logout
       \/ \E u \in WireUsers \cup {""}, p \in WirePasswords \cup {""} :
             FieldsMissing(u, p) /\ SubmitRegister(u, p)
       \/ \E u \in WireUsers \cup {""}, p \in WirePasswords \cup {""} :
             FieldsMissing(u, p) /\ SubmitLogin(u, p)

\* A widget is pressed and its handler reaches its first helper call.
Press(intent, u, p) ==
    /\ run.pc = "idle"
    /\ Admitted(intent, u, p)
    /\ LET r == [Idle EXCEPT !.intent = intent, !.username = u, !.password = p,
                             !.pre = session_state]
       IN  run' = [r EXCEPT !.pc = "sent", !.out = <<Outgoing(r, session_state, backend)>>]
    /\ UNCHANGED <<session_state, backend, last>>

\* The backend answers the outstanding request and the helper returns.
Serve ==
    /\ run.pc = "sent"
    /\ \E ret \in Pending(run, session_state, backend) :
        /\ backend' = ret.be
        /\ run' = [run EXCEPT !.pc = "answered", !.out = <<>>,
                              !.ret = [ret EXCEPT !.be = BackendInit]]
    /\ UNCHANGED <<session_state, last>>

\* The backend holds the connection open and never answers: requests.get and
\* requests.post are called without timeout= (lines 13, 26, 39, 52, 65) and
\* block for good.
Drop ==
    /\ run.pc = "sent"
    /\ run' = [run EXCEPT !.pc = "silent"]
    /\ UNCHANGED <<session_state, backend, last>>

\* The script goes on from the helper's return to the end of the handler, or
\* in submitLogin from line 219 to the call of line 221.
Resume ==
    /\ run.pc = "answered"
    /\ backend' = backend
    /\ CASE run.intent = "refreshProfile" -> RefreshProfileThen(run.ret) /\ run' = Idle
         [] run.intent = "generateKey" -> GenerateKeyThen(run.ret) /\ run' = Idle
         [] run.intent = "testProtectedAccess" -> TestProtectedAccessThen(run.ret) /\ run' = Idle
         [] run.intent = "submitRegister" ->
               SubmitRegisterThen(run.username, run.password, run.ret) /\ run' = Idle
         [] run.intent = "submitLogin" /\ run.done = <<>> /\ ~Succeeded(run.ret) ->
               SubmitLoginFailed(run.username, run.password, run.ret) /\ run' = Idle
         [] run.intent = "submitLogin" /\ run.done = <<>> /\ Succeeded(run.ret) ->
               LET stored == TokenStored(session_state, run.ret.result.value)
                   r == [run EXCEPT !.done = <<run.ret.req>>, !.ret = NoReturn]
               IN  /\ session_state' = stored
                   /\ run' = [r EXCEPT !.pc = "sent", !.out = <<Outgoing(r, stored, backend)>>]
                   /\ last' = last
         [] run.intent = "submitLogin" /\ run.done # <<>> ->
               /\ SubmitLoginVerify(run.pre, session_state, run.username, run.password,
                                    [NoReturn EXCEPT !.req = run.done[1]], run.ret)
               /\ run' = Idle

WireNext ==
    \/ Quick
    \/ \E intent \in {"refreshProfile", "generateKey", "testProtectedAccess"} :
          Press(intent, None, None)
    \/ \E intent \in {"submitRegister", "submitLogin"}, u \in WireUsers, p \in WirePasswords :
          Press(intent, u, p)
    \/ Serve
    \/ Drop
    \/ Resume
    \/ ExpireToken

WireSpec == Init /\ [][WireNext]_vars

\* The backend answers a request it has not dropped and the script thread
\* keeps running.
FairWireSpec == WireSpec /\ WF_vars(Serve) /\ WF_vars(Resume)

\* ---------------------------------------------------------------------
\* C14: at most one backend request is outstanding at any time, and while a
\* run is blocked in a request no new intent is accepted: the run keeps its
\* intent and its starting session, and neither the session nor the record
\* of the latest finished run changes. Within submitLogin the GET /users/me
\* request is outstanding only after POST /token has resolved with a truthy
\* payload, and its Authorization header is "Bearer " followed by the token
\* that payload carried; the same holds of the two requests of a finished
\* submitLogin.
OneOutstanding ==
    /\ Len(run.out) <= 1
    /\ run.out # <<>> <=> run.pc \in {"sent", "silent"}

VerifyAfterLogin ==
    /\ (run.intent = "submitLogin" /\ run.out # <<>> /\ run.out[1].path = "/users/me") =>
          /\ Len(run.done) = 1
          /\ run.done[1].path = "/token"
          /\ run.done[1].ok
          /\ run.out[1].hvalue = "Bearer " \o run.done[1].result.value
    /\ (run.intent = "submitLogin" /\ run.out # <<>> /\ run.out[1].path = "/token") =>
          run.done = <<>>
    /\ (last.intent = "submitLogin" /\ Len(last.reqs) = 2) =>
          /\ last.reqs[1].path = "/token" /\ last.reqs[1].ok
          /\ last.reqs[2].path = "/users/me"
          /\ last.reqs[2].hvalue = "Bearer " \o last.reqs[1].result.value

NoIntentWhileOutstanding ==
    /\ run.out # <<>> =>
          /\ run'.intent = run.intent /\ run'.pre = run.pre /\ run'.done = run.done
          /\ session_state' = session_state
          /\ last' = last
    /\ run.pc # "idle" =>
          /\ run'.pc # "idle" => run'.intent = run.intent /\ run'.pre = run.pre
          /\ last' # last => last'.intent = run.intent /\ last'.pre = run.pre /\ run'.pc = "idle"

C16_Original == (run.pc # "idle") ~> (run.pc = "idle")

====
